---- MODULE Spec2Model ----
(***************************************************************************)
(* State-machine model of chia-monitor's collection-and-notification core: *)
(*   monitor/collectors/rpc_collector.py  (RpcCollector)                   *)
(*   monitor/notifications/summary.py     (SummaryNotification)            *)
(*                                                                         *)
(* Every step of the model is one run of a coroutine between two           *)
(* suspension points (an awaited RPC call or database query): asyncio runs *)
(* a coroutine without interruption until it awaits something that is not  *)
(* ready.                                                                  *)
(***************************************************************************)
EXTENDS Integers, Sequences, FiniteSets, TLC

\* ------------------------------------------------------------------ bounds
MaxHosts == 2           \* harvester peers the farmer may report
MaxWallets == 1         \* wallets the wallet service may report
MaxTime == 7            \* the clock stops here

\* ---------------------------------------------------------------- constants
SummaryInterval == 3    \* summary_interval (one hour), in clock ticks

\* ------------------------------------------------------------ input domains
Metrics == {"wallet", "plots", "state", "conns"}
Balances == {1, 2}                          \* confirmed_wallet_balance values
PlotLists == {<<>>, <<1>>, <<2, 3>>}        \* a harvester's plots, as file sizes
\* NodeType of chia.server.outbound_message
FULL_NODE == 1
HARVESTER == 2
FARMER == 3
WALLET == 6
PeerLists == {<<FULL_NODE, FARMER, WALLET, FULL_NODE>>}
BlockchainStates == {[space |-> 12, difficulty |-> 7, height |-> 3, synced |-> TRUE]}

\* Python's None and an optional value, as a sequence of length 0 or 1.
None == <<>>
Some(x) == <<x>>

VARIABLES
    now,                \* datetime.now(), in clock ticks
    taskPc,             \* where RpcCollector.task() is
    cycle,              \* poll cycles started so far
    run_cycles,         \* poll cycles the run is followed for
    silent,             \* the remote services that do not answer at all
    open_clients,       \* the long-lived RPC clients of the collector that are open
    close_pc,           \* where RpcCollector.close() is: 0 not called, k awaiting the k-th client, 5 returned
    gatherExc,          \* the exception asyncio.gather() propagates, or "none"
    taskExc,            \* the exception that ended task(), or "none"
    fpc,                \* per metric fetch: where its coroutine is
    fexc,               \* per metric fetch: the exception it raised, or "none"
    failedRpc,          \* metrics one of whose remote calls failed in this cycle
    published,          \* per metric fetch: the event it published in this cycle, if any
    event_queue,        \* the asyncio.Queue the collector publishes to
    store,              \* the event store: per event kind, the rows persisted
    wallets,            \* get_wallet_balance: wallets still to ask
    confirmed_balances, \* get_wallet_balance: its list
    harvester_hosts,    \* get_harvesters' result
    hstat,              \* per harvester host: state of its get_plots() call
    hresp,              \* per harvester host: what the harvester answered
    all_plots,          \* get_all_plots: its accumulator (None or a plot list)
    class_ts,           \* the class attribute SummaryNotification.last_summary_ts
    instance_ts,        \* per rule instance: its own last_summary_ts attribute, if set
    notifications,      \* the rule instances the notification driver runs
    dpc,                \* where the driver's tick is
    drule,              \* the rule instance the tick is about
    lookups,            \* trigger(): the results of its queries so far
    ts_before,          \* last_summary_ts of drule when its tick began
    last_tick,          \* how the last tick ended
    notified,           \* the notify() calls made, oldest first
    cond_calls          \* per concurrent task: its call of condition()

collectorVars == <<taskPc, cycle, gatherExc, taskExc, fpc, fexc, failedRpc, published,
                   event_queue, wallets, confirmed_balances, harvester_hosts, hstat,
                   hresp, all_plots>>

notifVars == <<class_ts, instance_ts, notifications, dpc, drule, lookups, ts_before,
               last_tick, notified, cond_calls>>

vars == <<now, store, run_cycles, silent, open_clients, close_pc, collectorVars, notifVars>>

\* ------------------------------------------------------------ pure helpers
RECURSIVE SumSeq(_)
\* Python's sum() over a list of numbers
SumSeq(s) == IF s = <<>> THEN 0 ELSE Head(s) + SumSeq(Tail(s))

RECURSIVE PyStr(_)
\* Python's str() of a non-negative int: its decimal digits
PyStr(n) == IF n < 10 THEN <<n>> ELSE PyStr(n \div 10) \o <<n % 10>>

RECURSIVE PyInt(_)
\* Python's int() of a string of decimal digits
PyInt(s) == IF s = <<>> THEN 0 ELSE 10 * PyInt(SubSeq(s, 1, Len(s) - 1)) + s[Len(s)]

\* the peers of a connection list that have the given NodeType
PeersOfType(peers, t) == SelectSeq(peers, LAMBDA p : p = t)

\* what FarmerRpcClient.get_connections() answers when n harvesters are attached:
\* one full-node peer, then the harvesters
FarmerConnections(n) ==
    <<[type |-> FULL_NODE, peer_host |-> 0]>> \o [i \in 1..n |-> [type |-> HARVESTER, peer_host |-> i]]

\* get_harvesters, lines 111-113: the hosts of the harvester-role peers
HarvesterHostsOf(connections) ==
    LET hs == SelectSeq(connections, LAMBDA c : c.type = HARVESTER)
    IN  [i \in 1..Len(hs) |-> hs[i].peer_host]

\* ---------------------------------------------------------------- events
WalletBalanceEvent(ts, confirmed) ==
    [kind |-> "WalletBalanceEvent", ts |-> ts, confirmed |-> confirmed]
HarvesterPlotsEvent(ts, plot_count, plot_size) ==
    [kind |-> "HarvesterPlotsEvent", ts |-> ts, plot_count |-> plot_count, plot_size |-> plot_size]
BlockchainStateEvent(ts, space, diffculty, peak_height, synced) ==
    [kind |-> "BlockchainStateEvent", ts |-> ts, space |-> space, diffculty |-> diffculty,
     peak_height |-> peak_height, synced |-> synced]
ConnectionsEvent(ts, full_node_count, farmer_count, wallet_count) ==
    [kind |-> "ConnectionsEvent", ts |-> ts, full_node_count |-> full_node_count,
     farmer_count |-> farmer_count, wallet_count |-> wallet_count]

EventKind(m) ==
    CASE m = "wallet" -> "WalletBalanceEvent"
      [] m = "plots"  -> "HarvesterPlotsEvent"
      [] m = "state"  -> "BlockchainStateEvent"
      [] m = "conns"  -> "ConnectionsEvent"

\* ------------------------------------------------------- asyncio.gather()
\* gather() as a task group would do it: the children still running are cancelled
gather_cancels_siblings(pcs, m) ==
    [x \in DOMAIN pcs |->
        IF x = m THEN "raised"
        ELSE IF pcs[x] \in {"done", "raised"} THEN pcs[x] ELSE "cancelled"]

\* The children of gather() once child m has raised: without return_exceptions
\* the exception goes to the awaiting task and the other children are left
\* running.
gather_child_raised(pcs, m) == [pcs EXCEPT ![m] = "raised"]

\* the coroutine of fetch m has ended
Ended(m) == fpc[m] \in {"done", "raised", "cancelled"}

\* a fetch that, failing, publishes an event with a zero value
raise_after_zero_event(m, e) ==
    /\ fpc' = gather_child_raised(fpc, m)
    /\ fexc' = [fexc EXCEPT ![m] = e]
    /\ gatherExc' = IF gatherExc = "none" THEN e ELSE gatherExc
    /\ event_queue' = Append(event_queue,
           [kind |-> EventKind(m), ts |-> now, confirmed |-> PyStr(0)])
    /\ UNCHANGED published

\* fetch m raises e: its coroutine ends, and gather() keeps the first exception
Raise(m, e) ==
    /\ fpc' = gather_child_raised(fpc, m)
    /\ fexc' = [fexc EXCEPT ![m] = e]
    /\ gatherExc' = IF gatherExc = "none" THEN e ELSE gatherExc
    /\ UNCHANGED <<event_queue, published>>

\* Collector.publish_event: the event is put on the (unbounded) queue, and the
\* fetch returns
publish_event(m, event) ==
    /\ fpc' = [fpc EXCEPT ![m] = "done"]
    /\ event_queue' = Append(event_queue, event)
    /\ published' = [published EXCEPT ![m] = Some(event)]
    /\ UNCHANGED <<fexc, gatherExc>>

\* fetch m suspends at its next await
Await(m, pc) ==
    /\ fpc' = [fpc EXCEPT ![m] = pc]
    /\ UNCHANGED <<fexc, gatherExc, event_queue, published>>

Fail(m, how) == failedRpc' = [failedRpc EXCEPT ![m] = how]

walletLocals == <<wallets, confirmed_balances>>
plotsLocals == <<harvester_hosts, hstat, hresp, all_plots>>
taskVars == <<taskPc, cycle, run_cycles, silent, open_clients, close_pc, taskExc, now, store, notifVars>>
fetchVars == <<gatherExc, fpc, fexc, failedRpc, published, event_queue, wallets,
               confirmed_balances, harvester_hosts, hstat, hresp, all_plots>>

\* the remote services the collector calls (lines 26-29, 75, 108)
Services == {"wallet", "full_node", "farmer", "harvester"}

\* an awaited remote call returns or raises only if its service answers: no
\* call of the collector is given a timeout (lines 56, 59, 78, 110, 135, 146)
Answers(service) == service \notin silent

\* ------------------------------------------------------ get_wallet_balance
\* the fetch has ended: its local variables are gone
WalletReturns == wallets' = 0 /\ confirmed_balances' = <<>>

\* line 56 answers
GetWallets ==
    /\ fpc["wallet"] = "get_wallets"
    /\ Answers("wallet")
    /\ \/ /\ Fail("wallet", "network")
          /\ Raise("wallet", "ConnectionError")
          /\ WalletReturns
       \/ \E n \in 0..MaxWallets :
            /\ UNCHANGED failedRpc
            /\ IF n = 0
               THEN /\ publish_event("wallet", WalletBalanceEvent(now, PyStr(SumSeq(<<>>))))
                    /\ WalletReturns
               ELSE /\ Await("wallet", "get_wallet_balance")
                    /\ wallets' = n
                    /\ confirmed_balances' = <<>>
    /\ UNCHANGED <<taskVars, plotsLocals>>

\* line 59 answers, for the next wallet of the list
GetWalletBalance ==
    /\ fpc["wallet"] = "get_wallet_balance"
    /\ Answers("wallet")
    /\ \/ /\ \E how \in {"network", "malformed"} : Fail("wallet", how)
          /\ Raise("wallet", "ConnectionError")
          /\ WalletReturns
       \/ \E b \in Balances :
            LET balances == Append(confirmed_balances, b) IN
            /\ UNCHANGED failedRpc
            /\ IF wallets = 1
               THEN /\ publish_event("wallet", WalletBalanceEvent(now, PyStr(SumSeq(balances))))
                    /\ WalletReturns
               ELSE /\ Await("wallet", "get_wallet_balance")
                    /\ wallets' = wallets - 1
                    /\ confirmed_balances' = balances
    /\ UNCHANGED <<taskVars, plotsLocals>>

\* ---------------------------------------------------- get_blockchain_state
GetBlockchainState ==
    /\ fpc["state"] = "get_blockchain_state"
    /\ Answers("full_node")
    /\ \/ /\ Fail("state", "network")
          /\ Raise("state", "ConnectionError")
       \/ /\ Fail("state", "malformed")      \* a key is missing, or there is no peak yet
          /\ Raise("state", "KeyError")
       \/ \E state \in BlockchainStates :
            /\ UNCHANGED failedRpc
            /\ publish_event("state",
                   BlockchainStateEvent(now, PyStr(state.space), state.difficulty,
                                        PyStr(state.height), state.synced))
    /\ UNCHANGED <<taskVars, walletLocals, plotsLocals>>

\* --------------------------------------------------------- get_connections
GetConnections ==
    /\ fpc["conns"] = "get_connections"
    /\ Answers("full_node")
    /\ \/ /\ Fail("conns", "network")
          /\ Raise("conns", "ClientConnectorError")
       \/ /\ Fail("conns", "malformed")      \* a peer without a (valid) "type"
          /\ Raise("conns", "KeyError")
       \/ \E peers \in PeerLists :
            /\ UNCHANGED failedRpc
            /\ publish_event("conns",
                   ConnectionsEvent(now, Len(PeersOfType(peers, FULL_NODE)),
                                    Len(PeersOfType(peers, FARMER)),
                                    Len(PeersOfType(peers, WALLET))))
    /\ UNCHANGED <<taskVars, walletLocals, plotsLocals>>

\* ----------------------------------------------------- get_harvester_plots
Responses ==
    {[result |-> r, plots |-> <<>>] : r \in {"connerr", "raise", "nosuccess"}}
        \cup {[result |-> "ok", plots |-> p] : p \in PlotLists}
NoResponse == [result |-> "none", plots |-> <<>>]

Pending(hs) == {i \in DOMAIN hs : hs[i] = "pending"}
Unfinished(hs) == {i \in DOMAIN hs : hs[i] # "done"}
Min(S) == CHOOSE x \in S : \A y \in S : x <= y

\* the loop as a fan-out: get_plots is called for every host at once
get_all_plots_fan_out(hs) == [i \in DOMAIN hs |-> IF hs[i] = "pending" THEN "inflight" ELSE hs[i]]

\* get_all_plots, lines 92-93: the loop calls get_plots for the next host of the
\* list, and awaits it before it goes on
get_all_plots_next(hs) ==
    IF Pending(hs) = {} THEN hs ELSE [hs EXCEPT ![Min(Pending(hs))] = "inflight"]

\* line 98 with = for +=: the last answer replaces the earlier ones
merge_plots_overwrite(acc, resp) == IF resp.result = "ok" THEN Some(resp.plots) ELSE acc

\* line 94 without its test of plots["success"]
merge_plots_unchecked(acc, resp) ==
    IF resp.result \in {"ok", "nosuccess"}
    THEN IF acc = None THEN Some(resp.plots) ELSE Some(acc[1] \o resp.plots)
    ELSE acc

\* get_all_plots, lines 94-98: one host's answer is added to the accumulator
merge_plots(acc, resp) ==
    IF resp.result = "ok"
    THEN IF acc = None THEN Some(resp.plots) ELSE Some(acc[1] \o resp.plots)
    ELSE acc

\* the fetch has ended: its local variables are gone
PlotsReturns == harvester_hosts' = <<>> /\ hstat' = <<>> /\ all_plots' = None

\* get_all_plots goes on from per-host states old, answers resps and accumulator
\* acc, up to its next await or to the end of get_harvester_plots (lines 92-99,
\* 125-131)
GetAllPlotsStep(old, resps, acc) ==
    LET hs == get_all_plots_next(old)
        started == {i \in DOMAIN hs : hs[i] = "inflight" /\ old[i] # "inflight"}
    IN  IF started # {}
        THEN \/ /\ hstat' = hs
                /\ hresp' = resps
                /\ all_plots' = acc
                /\ UNCHANGED <<failedRpc, harvester_hosts>>
                /\ Await("plots", "get_all_plots")
             \* load_config or HarvesterRpcClient.create raises (lines 69-77): the
             \* handler prints, then line 86 reads the unbound harvester_client; the
             \* UnboundLocalError reaches line 126
             \/ \E i \in started :
                  /\ hresp' = [resps EXCEPT ![i] = [result |-> "createfail", plots |-> <<>>]]
                  /\ Fail("plots", "config")
                  /\ Raise("plots", "ConnectionError")
                  /\ PlotsReturns
        ELSE /\ hresp' = resps
             /\ UNCHANGED failedRpc
             /\ IF Unfinished(hs) # {}
                THEN /\ hstat' = hs
                     /\ all_plots' = acc
                     /\ UNCHANGED harvester_hosts
                     /\ Await("plots", "get_all_plots")
                ELSE /\ PlotsReturns
                     /\ IF acc = None
                        THEN Raise("plots", "TypeError")       \* line 129 subscripts None
                        ELSE publish_event("plots",
                                 HarvesterPlotsEvent(now, Len(acc[1]), SumSeq(acc[1])))

\* get_harvesters: lines 104-110 raise or answer
GetHarvesters ==
    /\ fpc["plots"] = "get_harvesters"
    /\ \/ \* load_config or FarmerRpcClient.create raises: line 117 reads the unbound
          \* farmer_client, and the UnboundLocalError reaches line 126
          /\ Fail("plots", "config")
          /\ Raise("plots", "ConnectionError")
          /\ UNCHANGED harvester_hosts
       \/ \* get_connections raises: caught at line 114
          /\ Answers("farmer")
          /\ Fail("plots", "network")
          /\ harvester_hosts' = <<>>
          /\ Await("plots", "farmer_closing")
       \/ \E n \in 0..MaxHosts :
            /\ Answers("farmer")
            /\ harvester_hosts' = HarvesterHostsOf(FarmerConnections(n))
            /\ UNCHANGED failedRpc
            /\ Await("plots", "farmer_closing")
    /\ UNCHANGED <<taskVars, walletLocals, hstat, hresp, all_plots>>

\* get_harvesters: line 118 returns; get_all_plots begins
FarmerClosed ==
    /\ fpc["plots"] = "farmer_closing"
    /\ GetAllPlotsStep([i \in DOMAIN harvester_hosts |-> "pending"],
                       [i \in DOMAIN harvester_hosts |-> NoResponse], None)
    /\ UNCHANGED <<taskVars, walletLocals>>

\* get_plots: line 78 raises or answers, for host number i of the list
GetPlotsResponse(i) ==
    /\ fpc["plots"] = "get_all_plots"
    /\ hstat[i] = "inflight"
    /\ Answers("harvester")
    /\ \E r \in Responses : hresp' = [hresp EXCEPT ![i] = r]
    /\ hstat' = [hstat EXCEPT ![i] = "closing"]
    /\ Await("plots", "get_all_plots")
    /\ UNCHANGED <<taskVars, walletLocals, harvester_hosts, all_plots, failedRpc>>

\* get_plots: line 87 returns, get_plots returns, and get_all_plots goes on
GetPlotsClosed(i) ==
    /\ fpc["plots"] = "get_all_plots"
    /\ hstat[i] = "closing"
    /\ GetAllPlotsStep([hstat EXCEPT ![i] = "done"], hresp, merge_plots(all_plots, hresp[i]))
    /\ UNCHANGED <<taskVars, walletLocals>>

\* ------------------------------------------------------------------ task()
FirstAwait(m) ==
    CASE m = "wallet" -> "get_wallets"
      [] m = "plots"  -> "get_harvesters"
      [] m = "state"  -> "get_blockchain_state"
      [] m = "conns"  -> "get_connections"

\* lines 157-159: gather() starts the four fetches, each runs to its first await
StartCycle ==
    /\ taskPc = "loop"
    /\ cycle < run_cycles
    /\ taskPc' = "gather"
    /\ cycle' = cycle + 1
    /\ fpc' = [m \in Metrics |-> FirstAwait(m)]
    /\ fexc' = [m \in Metrics |-> "none"]
    /\ failedRpc' = [m \in Metrics |-> "none"]
    /\ published' = [m \in Metrics |-> None]
    /\ gatherExc' = "none"
    /\ hresp' = <<>>
    /\ UNCHANGED <<now, store, run_cycles, silent, open_clients, close_pc, taskExc, event_queue, walletLocals,
                   harvester_hosts, hstat, all_plots, notifVars>>

\* a gather() that returns with its first result
gather_first_done(pcs) == \E m \in DOMAIN pcs : pcs[m] = "done"

\* line 158: gather() has a result when every one of its children has returned
gather_done(pcs) == \A m \in DOMAIN pcs : pcs[m] = "done"

\* line 158: every fetch has returned, gather() returns
GatherReturn ==
    /\ taskPc = "gather"
    /\ gather_done(fpc)
    /\ taskPc' = "sleep"
    /\ UNCHANGED <<now, store, cycle, run_cycles, silent, open_clients, close_pc, taskExc, fetchVars, notifVars>>

\* line 158: a fetch has raised, gather() raises its exception in task(), which
\* has no handler
GatherRaise ==
    /\ taskPc = "gather"
    /\ gatherExc # "none"
    /\ taskPc' = "raised"
    /\ taskExc' = gatherExc
    /\ UNCHANGED <<now, store, cycle, run_cycles, silent, open_clients, close_pc, fetchVars, notifVars>>

\* line 160: the sleep is over
SleepDone ==
    /\ taskPc = "sleep"
    /\ taskPc' = "loop"
    /\ now' = now + 1
    /\ UNCHANGED <<store, cycle, run_cycles, silent, open_clients, close_pc, taskExc, fetchVars, notifVars>>

\* ------------------------------------------------------- shutdown, close()
\* The run loop is cancelled at an await of task(): gather() cancels the fetches
\* that have not ended. The bare except clauses (lines 61, 126, 136) turn the
\* CancelledError into a ConnectionError; get_connections has none.
Cancel ==
    /\ taskPc \in {"gather", "sleep"}
    /\ close_pc = 0
    /\ taskPc' = "cancelled"
    /\ fpc' = [m \in Metrics |-> IF Ended(m) THEN fpc[m] ELSE "cancelled"]
    /\ fexc' = [m \in Metrics |->
                   IF Ended(m) THEN fexc[m]
                   ELSE IF m = "conns" THEN "CancelledError" ELSE "ConnectionError"]
    /\ WalletReturns
    /\ PlotsReturns
    /\ UNCHANGED <<now, store, cycle, run_cycles, silent, open_clients, close_pc, taskExc,
                   gatherExc, failedRpc, published, event_queue, hresp, notifVars>>

\* lines 168-171: the order close() closes the clients in
CloseOrder == <<"full_node", "wallet", "harvester", "farmer">>

\* a client that stays open when it is closed
close_leaves_farmer(clients, c) == IF c = "farmer" THEN clients ELSE clients \ {c}

\* lines 163-165: rpc_client.close() and await rpc_client.await_closed()
close_rpc_client(clients, c) == clients \ {c}

\* close() is called, once, after the run loop was cancelled: line 168 up to
\* its await
Close ==
    /\ taskPc = "cancelled"
    /\ close_pc = 0
    /\ close_pc' = 1
    /\ UNCHANGED <<now, store, run_cycles, silent, open_clients, collectorVars, notifVars>>

\* the client close() waits for is closed; close() goes on to the next client,
\* or returns
CloseAwaited ==
    /\ close_pc \in DOMAIN CloseOrder
    /\ open_clients' = close_rpc_client(open_clients, CloseOrder[close_pc])
    /\ close_pc' = close_pc + 1
    /\ UNCHANGED <<now, store, run_cycles, silent, collectorVars, notifVars>>

\* ------------------------------------------------------------ event store
EventKinds == {"WalletBalanceEvent", "HarvesterPlotsEvent", "BlockchainStateEvent",
               "ConnectionsEvent", "FarmingInfoEvent"}

FarmingInfoEvent(ts, proofs) == [kind |-> "FarmingInfoEvent", ts |-> ts, proofs |-> proofs]

\* a persisted event: the event and its primary key
Row(id, event) == [id |-> id] @@ event

\* the consumer of the queue takes the oldest event and adds it to the table of
\* its kind
PersistEvent ==
    /\ event_queue # <<>>
    /\ LET event == Head(event_queue) IN
       store' = [store EXCEPT ![event.kind] =
                     @ \cup {Row(Cardinality(@) + 1, event)}]
    /\ event_queue' = Tail(event_queue)
    /\ UNCHANGED <<now, taskPc, cycle, run_cycles, silent, open_clients, close_pc, taskExc, gatherExc, fpc, fexc, failedRpc,
                   published, walletLocals, plotsLocals, notifVars>>

\* the row inserted last
latest_by_arrival(table) == {r \in table : \A q \in table : q.id <= r.id}

\* select(E).order_by(E.ts.desc()).limit(1): the rows that may come first
LatestRows(table) == {r \in table : \A q \in table : q.ts <= r.ts}

RECURSIVE SumProofs(_)
\* select(func.sum(FarmingInfoEvent.proofs)) over a table with rows
SumProofs(table) ==
    IF table = {} THEN 0
    ELSE LET r == CHOOSE x \in table : TRUE IN r.proofs + SumProofs(table \ {r})

\* ------------------------------------------------------ SummaryNotification
Rules == {"A", "B"}

\* self.last_summary_ts: the instance's own attribute, else the class's
last_summary_ts(r) == IF instance_ts[r] = None THEN class_ts ELSE instance_ts[r][1]

\* an assignment on the class: every instance without an attribute of its own
\* reads it
set_class_last_summary_ts(cls, inst, r, t) == [class |-> t, instance |-> inst]

\* self.last_summary_ts = t (lines 18, 56): an assignment through self binds an
\* attribute of the instance, and leaves the class's alone
set_last_summary_ts(cls, inst, r, t) ==
    [class |-> cls, instance |-> [inst EXCEPT ![r] = Some(t)]]

\* line 56 run only when notify() reported a delivery
stamp_if_delivered(delivered) == delivered

\* line 56 follows line 55 whatever notify() returned
stamp_after_notify(delivered) == TRUE

\* line 17 with >= for >
condition_at_interval(ts, t_check, t_stamp) ==
    IF t_check - ts >= SummaryInterval
    THEN [result |-> TRUE, stamp |-> Some(t_stamp)]
    ELSE [result |-> FALSE, stamp |-> None]

\* condition() stamping the time it last fired instead of the clock
condition_keeps_stamp(ts, t_check, t_stamp) ==
    IF t_check - ts > SummaryInterval
    THEN [result |-> TRUE, stamp |-> Some(ts)]
    ELSE [result |-> FALSE, stamp |-> None]

\* condition() without line 18
condition_without_stamp(ts, t_check, t_stamp) ==
    IF t_check - ts > SummaryInterval
    THEN [result |-> TRUE, stamp |-> None]
    ELSE [result |-> FALSE, stamp |-> None]

\* condition(), lines 16-21, with the clock reading t_check at line 17 and
\* t_stamp at line 18: what it returns, and what it assigns to
\* self.last_summary_ts (None: nothing)
condition(ts, t_check, t_stamp) ==
    IF t_check - ts > SummaryInterval
    THEN [result |-> TRUE, stamp |-> Some(t_stamp)]
    ELSE [result |-> FALSE, stamp |-> None]

\* the clock ticks that may pass between two readings of one step
Drift == {d \in 0..1 : now + d <= MaxTime}

\* the queries of trigger(), in order (lines 25-42): the table each reads
QueryKind == <<"HarvesterPlotsEvent", "BlockchainStateEvent", "WalletBalanceEvent",
               "ConnectionsEvent", "FarmingInfoEvent">>

\* what query number k may answer: result.scalars().first()
QueryResults(k) ==
    LET table == store[QueryKind[k]] IN
    IF table = {} THEN {None}
    ELSE IF k = 5 THEN {Some(SumProofs(table))}
    ELSE {Some(r) : r \in LatestRows(table)}

\* lines 44-45 without proofs_found in the list
all_events_present(results) == \A k \in 1..4 : results[k] # None

\* lines 44-45: every query had a result
all_present(results) == \A k \in DOMAIN results : results[k] # None

\* lines 46-54: the summary, as the values its lines are formatted from
Summary(last_plots, last_state, last_balance, last_connections, proofs_found) ==
    <<last_plots.plot_count, PyInt(last_balance.confirmed), PyInt(last_state.space),
      last_state.peak_height, last_connections.full_node_count, last_state.synced,
      proofs_found>>

\* the driver's tick for rule r: condition(), and trigger() up to its first
\* query when it returned true
DriverTick(r) ==
    /\ dpc = "idle"
    /\ r \in notifications
    /\ \E d \in Drift :
         LET c == condition(last_summary_ts(r), now, now + d)
             a == IF c.stamp = None THEN [class |-> class_ts, instance |-> instance_ts]
                  ELSE set_last_summary_ts(class_ts, instance_ts, r, c.stamp[1])
         IN
         /\ now' = now + d
         /\ class_ts' = a.class
         /\ instance_ts' = a.instance
         /\ dpc' = IF c.result THEN "query" ELSE "idle"
         /\ last_tick' = IF c.result THEN "running" ELSE "skipped"
    /\ drule' = r
    /\ ts_before' = last_summary_ts(r)
    /\ lookups' = <<>>
    /\ UNCHANGED <<store, run_cycles, silent, open_clients, close_pc, collectorVars, notifications, notified,
                   cond_calls>>

\* trigger(): the query it awaits raises (the store cannot be reached) or answers
TriggerQuery ==
    /\ dpc = "query"
    /\ \/ /\ dpc' = "idle"                    \* the exception leaves trigger()
          /\ last_tick' = "failed"
          /\ lookups' = <<>>
       \/ /\ \E v \in QueryResults(Len(lookups) + 1) : lookups' = Append(lookups, v)
          /\ dpc' = IF Len(lookups) + 1 = Len(QueryKind) THEN "closing" ELSE "query"
          /\ UNCHANGED last_tick
    /\ UNCHANGED <<now, store, run_cycles, silent, open_clients, close_pc, collectorVars, class_ts, instance_ts,
                   notifications, drule, ts_before, notified, cond_calls>>

\* trigger(): the session is closed (line 24's block ends), then lines 44-56
TriggerFinish ==
    /\ dpc = "closing"
    /\ dpc' = "idle"
    /\ lookups' = <<>>
    /\ IF all_present(lookups)
       THEN /\ \E delivered \in BOOLEAN :
                 /\ notified' = Append(notified,
                     [at |-> now, rule |-> drule, delivered |-> delivered,
                      body |-> Summary(lookups[1][1], lookups[2][1], lookups[3][1],
                                       lookups[4][1], lookups[5])])
                 /\ LET a == IF stamp_after_notify(delivered)
                             THEN set_last_summary_ts(class_ts, instance_ts, drule, now)
                             ELSE [class |-> class_ts, instance |-> instance_ts]
                    IN class_ts' = a.class /\ instance_ts' = a.instance
            /\ last_tick' = "notified"
       ELSE /\ UNCHANGED <<notified, class_ts, instance_ts>>
            /\ last_tick' = "suppressed"
    /\ UNCHANGED <<now, store, run_cycles, silent, open_clients, close_pc, collectorVars, notifications, drule,
                   ts_before, cond_calls>>

\* the clock ticks
Advance ==
    /\ now < MaxTime
    /\ now' = now + 1
    /\ UNCHANGED <<store, run_cycles, silent, open_clients, close_pc, collectorVars, notifVars>>

\* ------------------------------------------- concurrent calls of condition()
Tasks == {1, 2}
NoCall == [pc |-> "idle", result |-> FALSE, at |-> 0, saw |-> 0]

\* task t calls condition() of rule r: the coroutine has no await, so the call
\* is one step
CallCondition(t, r) ==
    /\ cond_calls[t].pc = "idle"
    /\ r \in notifications
    /\ \E d \in Drift :
         LET c == condition(last_summary_ts(r), now, now + d)
             a == IF c.stamp = None THEN [class |-> class_ts, instance |-> instance_ts]
                  ELSE set_last_summary_ts(class_ts, instance_ts, r, c.stamp[1])
         IN
         /\ now' = now + d
         /\ class_ts' = a.class
         /\ instance_ts' = a.instance
         /\ cond_calls' = [cond_calls EXCEPT ![t] =
                [pc |-> "returned", result |-> c.result, at |-> now,
                 saw |-> last_summary_ts(r)]]
    /\ UNCHANGED <<store, run_cycles, silent, open_clients, close_pc, collectorVars, notifications, dpc, drule,
                   lookups, ts_before, last_tick, notified>>

\* task t is done with the result
ForgetCall(t) ==
    /\ cond_calls[t].pc = "returned"
    /\ cond_calls' = [cond_calls EXCEPT ![t] = NoCall]
    /\ UNCHANGED <<now, store, run_cycles, silent, open_clients, close_pc, collectorVars, class_ts, instance_ts,
                   notifications, dpc, drule, lookups, ts_before, last_tick, notified>>

\* ------------------------------------------------------------ initial states
InitCollector ==
    /\ open_clients = Services       \* lines 43-51
    /\ close_pc = 0
    /\ taskPc = "loop"
    /\ cycle = 0
    /\ gatherExc = "none"
    /\ taskExc = "none"
    /\ fpc = [m \in Metrics |-> "idle"]
    /\ fexc = [m \in Metrics |-> "none"]
    /\ failedRpc = [m \in Metrics |-> "none"]
    /\ published = [m \in Metrics |-> None]
    /\ wallets = 0
    /\ confirmed_balances = <<>>
    /\ harvester_hosts = <<>>
    /\ hstat = <<>>
    /\ hresp = <<>>
    /\ all_plots = None

\* lines 13-14: the class attribute is set when the module is loaded
InitNotification ==
    /\ class_ts = now - SummaryInterval
    /\ instance_ts = [r \in Rules |-> None]
    /\ dpc = "idle"
    /\ drule = "A"
    /\ lookups = <<>>
    /\ ts_before = now - SummaryInterval
    /\ last_tick = "none"
    /\ notified = <<>>
    /\ cond_calls = [t \in Tasks |-> NoCall]

\* an event of each kind, as the store may hold from an earlier run
StoredEvent(k) ==
    CASE k = "WalletBalanceEvent"   -> WalletBalanceEvent(0, PyStr(12))
      [] k = "HarvesterPlotsEvent"  -> HarvesterPlotsEvent(0, 2, 5)
      [] k = "BlockchainStateEvent" -> BlockchainStateEvent(0, PyStr(12), 7, PyStr(3), TRUE)
      [] k = "ConnectionsEvent"     -> ConnectionsEvent(0, 2, 1, 1)
      [] k = "FarmingInfoEvent"     -> FarmingInfoEvent(0, 1)

\* the collector starts with a fresh process: one poll cycle is followed in full
Init ==
    /\ now = 0
    /\ store = [k \in EventKinds |-> {}]
    /\ event_queue = <<>>
    /\ run_cycles = 1
    /\ silent = {}
    /\ notifications = {}
    /\ InitCollector
    /\ InitNotification

\* the notification driver starts on a store that holds events of any of the
\* kinds, with at most one more event on its way to the store
InitNotify ==
    /\ now = 0
    /\ \E have \in SUBSET EventKinds :
         store = [k \in EventKinds |-> IF k \in have THEN {Row(1, StoredEvent(k))} ELSE {}]
    /\ event_queue \in {<<>>} \cup {<<StoredEvent(k)>> : k \in EventKinds}
    /\ run_cycles = 0
    /\ silent = {}
    /\ notifications = {"A"}
    /\ InitCollector
    /\ InitNotification

\* two tasks are about to call condition() of the one rule instance
InitCondition ==
    /\ now = 0
    /\ store = [k \in EventKinds |-> {}]
    /\ event_queue = <<>>
    /\ run_cycles = 0
    /\ silent = {}
    /\ notifications = {"A"}
    /\ InitCollector
    /\ InitNotification

\* ------------------------------------------------------------ specifications
NextCollector ==
    \/ StartCycle
    \/ GetWallets
    \/ GetWalletBalance
    \/ GetHarvesters
    \/ FarmerClosed
    \/ \E i \in DOMAIN hstat : GetPlotsResponse(i)
    \/ \E i \in DOMAIN hstat : GetPlotsClosed(i)
    \/ GetBlockchainState
    \/ GetConnections
    \/ GatherReturn
    \/ GatherRaise
    \/ SleepDone

NextNotify ==
    \/ \E r \in Rules : DriverTick(r)
    \/ TriggerQuery
    \/ TriggerFinish
    \/ PersistEvent
    \/ Advance

NextCondition ==
    \/ \E t \in Tasks, r \in Rules : CallCondition(t, r)
    \/ \E t \in Tasks : ForgetCall(t)
    \/ Advance

Next == NextCollector \/ NextNotify \/ NextCondition

\* the whole system
Spec == Init /\ [][Next]_vars

\* one poll cycle of the collector
SpecCollector == Init /\ [][NextCollector]_vars

\* the notification driver, one rule registered, and the store's consumer
SpecNotify == InitNotify /\ [][NextNotify]_vars

\* two tasks that call condition() of one rule instance
SpecCondition == InitCondition /\ [][NextCondition]_vars

\* two rule instances are registered, on a store that holds events of every kind
InitTwoRules ==
    /\ now = 0
    /\ store = [k \in EventKinds |-> {Row(1, StoredEvent(k))}]
    /\ event_queue = <<StoredEvent("FarmingInfoEvent")>>
    /\ run_cycles = 0
    /\ silent = {}
    /\ notifications = Rules
    /\ InitCollector
    /\ InitNotification

\* the notification driver with two instances of the rule
SpecTwoRules == InitTwoRules /\ [][NextNotify]_vars

\* the store holds the wallet balances of two earlier poll cycles, 100 and then
\* 150, and the third cycle is about to start
InitHistory ==
    /\ now = 2
    /\ store = [k \in EventKinds |->
                   IF k = "WalletBalanceEvent"
                   THEN {Row(1, WalletBalanceEvent(0, PyStr(100))),
                         Row(2, WalletBalanceEvent(1, PyStr(150)))}
                   ELSE {}]
    /\ event_queue = <<>>
    /\ run_cycles = 1
    /\ silent = {}
    /\ notifications = {}
    /\ InitCollector
    /\ InitNotification

NextHistory == NextCollector \/ PersistEvent

\* a poll cycle on a store with history, and the store's consumer
SpecHistory == InitHistory /\ [][NextHistory]_vars

NextShutdown == NextCollector \/ Cancel \/ Close \/ CloseAwaited

\* a poll cycle that may be cancelled, and close() after it
SpecShutdown == Init /\ [][NextShutdown]_vars

\* StoredEvent(k) with another timestamp
EventAt(k, ts) == [StoredEvent(k) EXCEPT !.ts = ts]

\* the store holds an event of every kind, and two more events of one kind are
\* on their way to the store, in either order of their timestamps
InitLatest ==
    /\ now = 2
    /\ store = [k \in EventKinds |-> {Row(1, StoredEvent(k))}]
    /\ \E k \in EventKinds \ {"FarmingInfoEvent"} :
         event_queue \in {<<EventAt(k, 1), EventAt(k, 2)>>, <<EventAt(k, 2), EventAt(k, 1)>>}
    /\ run_cycles = 0
    /\ silent = {}
    /\ notifications = {"A"}
    /\ InitCollector
    /\ InitNotification

\* the notification driver while events arrive in the store
SpecLatest == InitLatest /\ [][NextNotify]_vars

\* one poll cycle in which one of the remote services may not answer at all
InitStall ==
    /\ now = 0
    /\ store = [k \in EventKinds |-> {}]
    /\ event_queue = <<>>
    /\ run_cycles = 1
    /\ silent \in {{}} \cup {{s} : s \in Services}
    /\ notifications = {}
    /\ InitCollector
    /\ InitNotification

\* the event loop runs every coroutine that can run: whatever step of the
\* collector is possible is eventually taken
SpecStall == InitStall /\ [][NextCollector]_vars /\ WF_vars(NextCollector)
\* ------------------------------------------------------------------- claims
OkHosts == {i \in DOMAIN hresp : hresp[i].result = "ok"}
FailedHosts == {i \in DOMAIN hresp : hresp[i].result \in {"connerr", "raise", "nosuccess"}}

\* the remote calls of fetch m answered well (for the plots: the farmer answered
\* and so did a harvester)
OwnCallsSucceeded(m) ==
    /\ failedRpc[m] = "none"
    /\ m = "plots" => OkHosts # {}

RECURSIVE PlotsOf(_, _)
\* the plots of the hosts 1..n that answered well, host by host
PlotsOf(resps, n) ==
    IF n = 0 THEN <<>>
    ELSE PlotsOf(resps, n - 1) \o (IF resps[n].result = "ok" THEN resps[n].plots ELSE <<>>)

RECURSIVE CountKind(_, _)
\* how many events of a kind a queue holds
CountKind(q, kind) ==
    IF q = <<>> THEN 0
    ELSE (IF Head(q).kind = kind THEN 1 ELSE 0) + CountKind(Tail(q), kind)

\* C1: in a poll cycle, a fetch whose own remote calls succeeded ends with its
\* event published, whatever the other three fetches of the cycle did: no fetch
\* ends unpublished because of another fetch's failure.
C1_FetchIsolation ==
    \A m \in Metrics :
        (Ended(m) /\ OwnCallsSucceeded(m)) =>
            /\ published[m] # None
            /\ published[m][1].kind = EventKind(m)
            /\ CountKind(event_queue, EventKind(m)) = 1

\* C1 witness: the wallet fetch failed and ended task(), and the other three
\* fetches of the cycle published
C1_Witness ==
    /\ fexc["wallet"] = "ConnectionError"
    /\ taskPc = "raised"
    /\ \A m \in Metrics \ {"wallet"} : published[m] # None

\* C2: a metric fetch failure never ends the collector loop: task() is never
\* ended by an exception of a fetch.
C2_LoopSurvivesFailures ==
    (\E m \in Metrics : fexc[m] # "none") => taskPc # "raised"

\* C3: when the farmer returned N >= 1 harvester hosts, every one of them was
\* asked, and M < N of them failed (could not be connected to, raised, or
\* answered without success), the fetch has published exactly one
\* HarvesterPlotsEvent, whose plot_count is the number of plots of the N-M
\* harvesters that answered and whose plot_size is the sum of their file sizes.
C3_PartialAggregate ==
    (/\ Ended("plots")
     /\ OkHosts # {}
     /\ OkHosts \cup FailedHosts = DOMAIN hresp) =>
        /\ \E ts \in 0..now :
               published["plots"] =
                   Some(HarvesterPlotsEvent(ts, Len(PlotsOf(hresp, Len(hresp))),
                                            SumSeq(PlotsOf(hresp, Len(hresp)))))
        /\ CountKind(event_queue, "HarvesterPlotsEvent") = 1
        /\ fexc["plots"] = "none"

\* C3 witness: of two harvesters one failed and one answered with plots, and the
\* event is published
C3_Witness ==
    /\ published["plots"] # None
    /\ Len(hresp) = 2
    /\ \E i \in OkHosts : Len(hresp[i].plots) = 2
    /\ FailedHosts # {}

\* C4: a HarvesterPlotsEvent is published only when a harvester answered: when
\* every harvester failed, the farmer reported no harvester, or the farmer could
\* not be asked, the cycle publishes none.
C4_NoEventWithoutHarvester ==
    OkHosts = {} =>
        /\ published["plots"] = None
        /\ CountKind(event_queue, "HarvesterPlotsEvent") = 0

\* C4 witness: two harvesters were asked, both failed, and the fetch has ended
C4_Witness ==
    /\ Ended("plots")
    /\ Len(hresp) = 2
    /\ FailedHosts = DOMAIN hresp
    /\ published["plots"] = None

\* C5: any two notify() calls of a rule are more than the cooldown interval
\* apart, so a window of that length holds at most one of them.
C5_Debounce ==
    \A i, j \in DOMAIN notified :
        (i < j /\ notified[i].rule = notified[j].rule) =>
            notified[j].at - notified[i].at > SummaryInterval

\* C5 witness: two notifications were made, and a tick after the second was
\* turned down by condition()
C5_Witness ==
    /\ Len(notified) = 2
    /\ last_tick = "skipped"

\* C6: trigger() calls notify() only when each of its five queries had a result,
\* and so only when the store holds data of all five kinds.
C6_MissingDataSuppression ==
    [][notified' # notified =>
          /\ \A k \in DOMAIN QueryKind : lookups[k] # None
          /\ \A k \in DOMAIN QueryKind : store[QueryKind[k]] # {}]_vars

\* C6 witness: trigger() ran on a store without data of some kind and made no
\* notification
C6_Witness ==
    /\ last_tick = "suppressed"
    /\ \E k \in DOMAIN QueryKind : store[QueryKind[k]] = {}
    /\ \E k \in DOMAIN QueryKind : store[QueryKind[k]] # {}
    /\ notified = <<>>

\* C7: after a tick whose store query raised, last_summary_ts is what it was
\* before the tick.
C7_FailedTickKeepsTimestamp ==
    last_tick = "failed" => last_summary_ts(drule) = ts_before

\* C8: condition() returns true only if the clock it read is more than the
\* cooldown interval past last_summary_ts, and of two calls on one rule instance
\* at the same instant at most one returns true.
C8_AtomicCondition ==
    /\ \A t \in Tasks :
         (cond_calls[t].pc = "returned" /\ cond_calls[t].result) =>
             cond_calls[t].at - cond_calls[t].saw > SummaryInterval
    /\ \A t, u \in Tasks :
         (/\ t # u
          /\ cond_calls[t].pc = "returned" /\ cond_calls[u].pc = "returned"
          /\ cond_calls[t].at = cond_calls[u].at) =>
             ~(cond_calls[t].result /\ cond_calls[u].result)

\* C8 witness: two calls at the same instant, one returned true, the other false
C8_Witness ==
    /\ cond_calls[1].pc = "returned" /\ cond_calls[2].pc = "returned"
    /\ cond_calls[1].at = cond_calls[2].at
    /\ cond_calls[1].result /\ ~cond_calls[2].result

\* C9: a metric fetch raises nothing but the classified ConnectionError, and a
\* fetch that raised has published no event.
C9_OnlyConnectionError ==
    \A m \in Metrics :
        /\ fexc[m] \in {"none", "ConnectionError"}
        /\ fexc[m] # "none" => published[m] = None

HostsInFlight == {i \in DOMAIN hstat : hstat[i] \in {"inflight", "closing"}}

\* C10 as claimed: the per-harvester fetches of a cycle are a fan-out: while the
\* fetch of one host is in flight, the fetch of every other host of the cycle
\* has started too.
C10_FanOut ==
    HostsInFlight # {} => \A j \in DOMAIN hstat : hstat[j] # "pending"

\* C10 as amended: the per-harvester fetches of a cycle run one after another:
\* at most one is in flight, and a host's fetch has started only when the
\* fetches of all hosts before it in the list have finished.
C10_OneAtATime ==
    /\ Cardinality(HostsInFlight) <= 1
    /\ \A i, j \in DOMAIN hstat : (i < j /\ hstat[j] # "pending") => hstat[i] = "done"

\* C10 witness: the second host's fetch is in flight, after the first host's
C10_Witness ==
    /\ Len(hstat) = 2
    /\ hstat[1] = "done"
    /\ hstat[2] = "inflight"
\* C11: a poll cycle does not stall: once gather() has started the four
\* fetches, it eventually returns or raises, also when a remote service never
\* answers.
C11_CycleCompletes == (taskPc = "gather") ~> (taskPc # "gather")
\* C12: a notify() whose delivery failed still counts for the cooldown: from
\* then on last_summary_ts is not earlier than the attempt, and the next
\* notify() of the rule comes more than the cooldown interval after it.
C12_FailedDeliveryKeepsCooldown ==
    \A i \in DOMAIN notified :
        ~notified[i].delivered =>
            /\ last_summary_ts(notified[i].rule) >= notified[i].at
            /\ \A j \in DOMAIN notified :
                 (j > i /\ notified[j].rule = notified[i].rule) =>
                     notified[j].at - notified[i].at > SummaryInterval

\* C12 witness: a delivery failed, and a later notify() of the rule was made
C12_Witness ==
    /\ Len(notified) = 2
    /\ ~notified[1].delivered
    /\ notified[2].rule = notified[1].rule

\* C13: the steps of a tick of one rule instance leave the last_summary_ts of
\* every other instance as it was.
C13_PerInstanceCooldown ==
    [][\A r \in Rules : drule' # r => last_summary_ts(r)' = last_summary_ts(r)]_vars

\* C13 witness: both instances have notified, B within the cooldown interval
\* of A
C13_Witness ==
    \E i, j \in DOMAIN notified :
        /\ i < j
        /\ notified[i].rule = "A" /\ notified[j].rule = "B"
        /\ notified[j].at - notified[i].at <= SummaryInterval
        /\ instance_ts["A"] # instance_ts["B"]
\* C14: a failing wallet fetch puts no event on the queue, so after balances
\* of 100 and 150 and a failed fetch the latest WalletBalanceEvent is the 150
\* one; and once a fetch has succeeded and its event is stored, the latest is
\* that event.
C14_HistoryKept ==
    LET latest == LatestRows(store["WalletBalanceEvent"]) IN
    /\ latest # {}
    /\ fexc["wallet"] # "none" =>
          /\ CountKind(event_queue, "WalletBalanceEvent") = 0
          /\ latest = {Row(2, WalletBalanceEvent(1, PyStr(150)))}
    /\ (published["wallet"] # None /\ CountKind(event_queue, "WalletBalanceEvent") = 0) =>
          latest = {Row(3, published["wallet"][1])}
    /\ \A m \in Metrics \ {"wallet"} :
          fexc[m] # "none" =>
              /\ CountKind(event_queue, EventKind(m)) = 0
              /\ store[EventKind(m)] = {}

\* C14 witness: the wallet fetch failed, and the events of the other fetches
\* of the cycle are stored
C14_Witness ==
    /\ fexc["wallet"] = "ConnectionError"
    /\ event_queue = <<>>
    /\ store["ConnectionsEvent"] # {} /\ store["BlockchainStateEvent"] # {}
    /\ PyInt(CHOOSE c \in {r.confirmed : r \in LatestRows(store["WalletBalanceEvent"])} : TRUE) = 150
\* C15: when close(), called once after the run loop was cancelled, has
\* returned, none of the four long-lived RPC clients is open.
C15_CloseReleasesAll == close_pc = Len(CloseOrder) + 1 => open_clients = {}

\* C15 witness: the loop was cancelled with a fetch in flight, and close() has
\* returned
C15_Witness ==
    /\ taskPc = "cancelled"
    /\ \E m \in Metrics : fpc[m] = "cancelled"
    /\ close_pc = Len(CloseOrder) + 1
\* C16: each of the four "latest event" queries of trigger() answers with a row
\* whose ts is the greatest of its kind in the store, in whatever order the
\* rows were inserted.
C16_LatestByTimestamp ==
    [][\A k \in 1..4 :
          (Len(lookups) = k - 1 /\ Len(lookups') = k /\ lookups'[k] # None) =>
              \A q \in store[QueryKind[k]] : q.ts <= lookups'[k][1].ts]_vars

\* C16 witness: a query has answered with a row that was inserted before a
\* row with an earlier timestamp
C16_Witness ==
    \E k \in DOMAIN lookups :
        /\ k <= 4
        /\ lookups[k] # None
        /\ \E q \in store[QueryKind[k]] : q.id > lookups[k][1].id /\ q.ts < lookups[k][1].ts
\* C17: when all four fetches of a cycle have ended with their remote calls
\* answered well, the cycle has published exactly four events, one of each
\* kind; and task() is past gather() in a cycle (asleep, or at the top of the
\* loop where the next cycle starts) only when all four fetches have returned.
C17_OneEventPerKind ==
    /\ (\A m \in Metrics : Ended(m) /\ OwnCallsSucceeded(m)) =>
          /\ Len(event_queue) = Cardinality(Metrics)
          /\ \A m \in Metrics : CountKind(event_queue, EventKind(m)) = 1
    /\ (cycle > 0 /\ taskPc \in {"sleep", "loop"}) =>
          \A m \in Metrics : fpc[m] = "done" /\ published[m] # None

\* C17 witness: the cycle is over with every harvester answering, and task()
\* is where the next cycle starts
C17_Witness ==
    /\ cycle = 1
    /\ taskPc = "loop"
    /\ Len(hresp) = 2
    /\ OkHosts = DOMAIN hresp
    /\ Len(event_queue) = 4
\* C18: get_plots() and get_harvesters() leave no client open and do not raise:
\* when the plots fetch has ended no per-host fetch is still open, and a
\* failure to create the short-lived client does not make the fetch raise.
C18_ShortLivedClientsClosed ==
    /\ Ended("plots") => HostsInFlight = {}
    /\ failedRpc["plots"] = "config" => fexc["plots"] = "none"
\* C19: a tick on which condition() returned true has moved last_summary_ts
\* past the cooldown interval after its earlier value, whether trigger() then
\* notified, was suppressed or failed; after a suppressed tick every tick is
\* turned down until more than the interval has passed; and last_summary_ts of
\* a rule never decreases.
C19_StampOnEveryFiring ==
    /\ [][\A r \in Rules : last_summary_ts(r)' >= last_summary_ts(r)]_vars
    /\ [](last_tick \in {"running", "suppressed", "failed", "notified"} =>
            /\ last_summary_ts(drule) - ts_before > SummaryInterval
            /\ last_summary_ts(drule) <= now)
    /\ [][(last_tick = "suppressed" /\ last_tick' = "running") =>
              now' - last_summary_ts(drule) > SummaryInterval]_vars

\* C19 witness: a tick was suppressed for missing data, made no notification,
\* and left last_summary_ts at the time of the tick
C19_Witness ==
    /\ last_tick = "suppressed"
    /\ notified = <<>>
    /\ instance_ts[drule] # None
    /\ instance_ts[drule][1] > 0
    /\ instance_ts[drule][1] - ts_before > SummaryInterval
====
